---- MODULE Spec2Model ----
(***************************************************************************)
(* Model of newt/mfg/meta.go: the manufacturing meta region.               *)
(*                                                                         *)
(*   insertMeta   builds the region (header, one flash-area TLV per area,  *)
(*                a zeroed hash TLV, footer) and copies it to the end of   *)
(*                the boot loader area of the image blob;                  *)
(*   calcMetaHash hashes the whole blob with the hash field zeroed;        *)
(*   fillMetaHash stores that digest in the hash field.                    *)
(*                                                                         *)
(* Byte slices are sequences of 0..255.  Go indexes from 0, sequences from *)
(* 1: At(s, i) is s[i] of the Go code.  A Go run-time panic (index or      *)
(* slice bound out of range) is the outcome "panic".                       *)
(***************************************************************************)
EXTENDS Integers, Sequences, FiniteSets

VARIABLES
    pc,            \* "start", "inserted", "failed", "panicked", "patched"
    lastOp,        \* the function that ran last
    flashMap,      \* flash.FlashMap: the set of its areas, names unique
    section0Data,  \* the image blob, mutated in place
    buf,           \* insertMeta's region buffer when it returned
    hashSubOff,    \* insertMeta's hashSubOff
    hashOffset,    \* the hash offset insertMeta returned / the caller passes
    err,           \* the error insertMeta returned, "nil" when none
    orig,          \* the blob as it was before insertMeta
    insBlob,       \* the blob as insertMeta left it
    pre,           \* the blob as it was before the last hash call
    digests        \* the digests calcMetaHash returned since the last write

vars == << pc, lastOp, flashMap, section0Data, buf, hashSubOff, hashOffset,
           err, orig, insBlob, pre, digests >>

----------------------------------------------------------------------------
(* Program constants                                                       *)

META_MAGIC == 1001562729

META_VERSION == 1

META_TLV_CODE_HASH == 1

META_TLV_CODE_FLASH_AREA == 2

META_HASH_SZ == 32

META_FOOTER_SZ == 8

META_TLV_HASH_SZ == META_HASH_SZ

META_TLV_FLASH_AREA_SZ == 12

FLASH_AREA_NAME_BOOTLOADER == "FLASH_AREA_BOOTLOADER"

ERASED == 255

----------------------------------------------------------------------------
(* Bounds of the model                                                     *)

\* most areas in a flash map
MaxAreas == 3

\* most calcMetaHash calls between two writes of the blob
MaxCalc == 2

\* blobs of the hash-only specification are META_HASH_SZ .. +MaxSlack long
MaxSlack == 6

----------------------------------------------------------------------------
(* Byte-slice helpers                                                      *)

At(s, i) == s[i + 1]

RECURSIVE Pow(_, _)
Pow(b, n) == IF n = 0 THEN 1 ELSE b * Pow(b, n - 1)

\* fixed-width integer conversions of Go: uint8(x), uint16(x), uint32(x)
uint8(x) == x % 256

uint16(x) == x % 65536

\* x mod 2^32, written on the two 16-bit halves of x (TLC's integers end
\* below 2^32)
uint32(x) == (x % 65536) + 65536 * ((x \div 65536) % 65536)

\* binary.LittleEndian encoding of the n-byte unsigned value v
LittleEndian(v, n) == [i \in 1..n |-> (v \div Pow(256, i - 1)) % 256]

\* the value of the little-endian bytes s
RECURSIVE FromLittleEndian(_)
FromLittleEndian(s) ==
    IF s = << >> THEN 0 ELSE Head(s) + 256 * FromLittleEndian(Tail(s))

Zeros(n) == [i \in 1..n |-> 0]

\* s[lo:hi] of Go, for 0 <= lo <= hi <= len(s)
Slice(s, lo, hi) == SubSeq(s, lo + 1, hi)

----------------------------------------------------------------------------
(* The region encoder                                                      *)

\* binary.Write of a struct of fixed-size fields appends its bytes; it cannot
\* fail on a bytes.Buffer, so the error returns of the writers never happen
writeElem(elem, b) == b \o elem

writeHeader(b) ==
    writeElem(<< META_VERSION, 255 >> \o LittleEndian(65535, 2), b)

\* a variant whose size field leaves the footer out
writeFooter_noFooterSz(b) ==
    writeElem(LittleEndian(uint16(Len(b)), 2)
                \o LittleEndian(65535, 2)
                \o LittleEndian(META_MAGIC, 4), b)

\* size: uint16(buf.Len() + META_FOOTER_SZ), taken before the footer is written
writeFooter(b) ==
    writeElem(LittleEndian(uint16(Len(b) + META_FOOTER_SZ), 2)
                \o LittleEndian(65535, 2)
                \o LittleEndian(META_MAGIC, 4), b)

\* a variant that writes size before offset
writeFlashArea_swapped(area, b) ==
    writeElem(<< META_TLV_CODE_FLASH_AREA, META_TLV_FLASH_AREA_SZ,
                 uint8(area.Id), uint8(area.Device) >>
                \o LittleEndian(65535, 2)
                \o LittleEndian(uint32(area.Size), 4)
                \o LittleEndian(uint32(area.Offset), 4), b)

\* code, size, areaId, deviceId, pad16, offset, size: 14 bytes
writeFlashArea(area, b) ==
    writeElem(<< META_TLV_CODE_FLASH_AREA, META_TLV_FLASH_AREA_SZ,
                 uint8(area.Id), uint8(area.Device) >>
                \o LittleEndian(65535, 2)
                \o LittleEndian(uint32(area.Offset), 4)
                \o LittleEndian(uint32(area.Size), 4), b)

writeZeroHash(b) ==
    writeElem(<< META_TLV_CODE_HASH, META_TLV_HASH_SZ >> \o Zeros(META_HASH_SZ), b)

\* flash.FlashMap.SortedAreas: the areas of the map in ascending Id order
RECURSIVE SortedAreas(_)
SortedAreas(fm) ==
    IF fm = {} THEN << >>
    ELSE LET first == CHOOSE a \in fm : \A o \in fm : a.Id <= o.Id
         IN << first >> \o SortedAreas(fm \ {first})

\* the loop over the sorted areas
RECURSIVE writeFlashAreas(_, _)
writeFlashAreas(areas, b) ==
    IF areas = << >> THEN b
    ELSE writeFlashAreas(Tail(areas), writeFlashArea(Head(areas), b))

\* hashSubOff := buf.Len() - META_HASH_SZ, taken right after writeZeroHash
hashSubOffOf(b) == Len(b) - META_HASH_SZ

\* the buffer insertMeta builds before it looks at the blob
bufAfterZeroHash(fm) ==
    writeZeroHash(writeFlashAreas(SortedAreas(fm), writeHeader(<< >>)))

buildRegion(fm) ==
    LET b == bufAfterZeroHash(fm)
    IN [buf |-> writeFooter(b), hashSubOff |-> hashSubOffOf(b)]

----------------------------------------------------------------------------
(* The region inserter                                                     *)

\* flashMap.Areas[flash.FLASH_AREA_NAME_BOOTLOADER]: ok, and the area
HasBootArea(fm) == \E a \in fm : a.Name = FLASH_AREA_NAME_BOOTLOADER

BootArea(fm) == CHOOSE a \in fm : a.Name = FLASH_AREA_NAME_BOOTLOADER

\* a variant that also refuses an area exactly as long as the region
bootAreaTooSmall_orEqual(bootArea, b) == bootArea.Size <= Len(b)

\* if bootArea.Size < buf.Len()
bootAreaTooSmall(bootArea, b) == bootArea.Size < Len(b)

\* metaOff := bootArea.Offset + bootArea.Size - buf.Len()
metaOffOf(bootArea, b) == bootArea.Offset + bootArea.Size - Len(b)

\* for i := metaOff; i < bootArea.Size; i++ { if section0Data[i] != 0xff ... }
\* "occupied": the loop returned the error; "panic": it indexed past the end
\* of the blob; "clear": it ran to its bound
RECURSIVE scanLoop(_, _, _)
scanLoop(data, i, bound) ==
    IF i >= bound THEN "clear"
    ELSE IF i >= Len(data) THEN "panic"
    ELSE IF At(data, i) # ERASED THEN "occupied"
    ELSE scanLoop(data, i + 1, bound)

scanMetaRegion(data, metaOff, bootArea) == scanLoop(data, metaOff, bootArea.Size)

\* copy(dst[off:], src), for off <= len(dst): copies min(len(dst)-off, len(src))
\* bytes and leaves the length of dst as it is
copyAt(dst, off, src) ==
    [i \in 1..Len(dst) |->
        IF i - 1 >= off /\ i - 1 < off + Len(src) THEN src[i - off] ELSE dst[i]]

insertMetaReturn(data, b, sub, off, e, panicked) ==
    [data |-> data, buf |-> b, hashSubOff |-> sub, hashOff |-> off,
     err |-> e, panic |-> panicked]

\* a variant that copies the region first and validates afterwards
insertMeta_copyFirst(data, fm) ==
    LET r == buildRegion(fm)
        b == r.buf
    IN  IF ~HasBootArea(fm)
        THEN insertMetaReturn(data, b, r.hashSubOff, 0,
                              "Required boot loader flash area missing", FALSE)
        ELSE
        LET bootArea == BootArea(fm)
            metaOff == metaOffOf(bootArea, b)
            written == IF metaOff >= 0 /\ metaOff <= Len(data)
                       THEN copyAt(data, metaOff, b) ELSE data
            scan == scanMetaRegion(data, metaOff, bootArea)
        IN  IF bootAreaTooSmall(bootArea, b)
            THEN insertMetaReturn(written, b, r.hashSubOff, 0,
                     "Boot loader flash area too small to accommodate meta region",
                     FALSE)
            ELSE IF scan = "occupied"
            THEN insertMetaReturn(written, b, r.hashSubOff, 0,
                     "Boot loader extends into meta region", FALSE)
            ELSE IF scan = "panic" \/ metaOff > Len(data)
            THEN insertMetaReturn(data, b, r.hashSubOff, 0, "nil", TRUE)
            ELSE insertMetaReturn(written, b, r.hashSubOff,
                                  metaOff + r.hashSubOff, "nil", FALSE)

\* insertMeta(section0Data, flashMap): the blob afterwards, the hash offset
\* and the error returned, or a panic
insertMeta(data, fm) ==
    LET r == buildRegion(fm)
        b == r.buf
    IN  IF ~HasBootArea(fm)
        THEN insertMetaReturn(data, b, r.hashSubOff, 0,
                              "Required boot loader flash area missing", FALSE)
        ELSE
        LET bootArea == BootArea(fm)
            metaOff == metaOffOf(bootArea, b)
            scan == scanMetaRegion(data, metaOff, bootArea)
        IN  IF bootAreaTooSmall(bootArea, b)
            THEN insertMetaReturn(data, b, r.hashSubOff, 0,
                     "Boot loader flash area too small to accommodate meta region",
                     FALSE)
            ELSE IF scan = "occupied"
            THEN insertMetaReturn(data, b, r.hashSubOff, 0,
                     "Boot loader extends into meta region", FALSE)
            ELSE IF scan = "panic"
            THEN insertMetaReturn(data, b, r.hashSubOff, 0, "nil", TRUE)
            \* section0Data[metaOff:] needs metaOff <= len(section0Data)
            ELSE IF metaOff > Len(data)
            THEN insertMetaReturn(data, b, r.hashSubOff, 0, "nil", TRUE)
            ELSE insertMetaReturn(copyAt(data, metaOff, b), b, r.hashSubOff,
                                  metaOff + r.hashSubOff, "nil", FALSE)

----------------------------------------------------------------------------
(* The hash patcher                                                        *)

\* sha256.Sum256 of the standard library, abstracted: a 32-byte value that
\* is a function of every byte of its input and of the byte's position
RECURSIVE Absorb(_, _, _)
Absorb(s, lo, hi) ==
    IF lo > hi THEN 0
    ELSE IF lo = hi THEN (((lo * lo * 31 + lo * 7 + 1) % 7919) * (s[lo] + 1)) % 1000003
    ELSE LET mid == (lo + hi) \div 2
         IN  (Absorb(s, lo, mid) + Absorb(s, mid + 1, hi)) % 1000003

Sum256(s) ==
    LET acc == (Absorb(s, 1, Len(s)) + Len(s)) % 1000003
    IN  [j \in 1..META_HASH_SZ |-> ((acc * (2 * j + 1) + j) % 65521) % 256]

\* for i := 0; i < META_HASH_SZ; i++ { mfgImageBlob[hashOffset+i] = 0 }
zeroField(blob, off) == copyAt(blob, off, Zeros(META_HASH_SZ))

\* the slice expressions and the index expressions of calcMetaHash are in
\* range exactly when the field lies inside the blob
InRange(blob, off) == off >= 0 /\ off + META_HASH_SZ <= Len(blob)

\* a variant that hashes the blob with the field as it is
calcMetaHash_noZero(blob, off) ==
    LET oldContents == Slice(blob, off, off + META_HASH_SZ)
        hash == Sum256(blob)
    IN  [blob |-> copyAt(blob, off, oldContents), hash |-> hash]

\* a variant that leaves the field zeroed
calcMetaHash_noRestore(blob, off) ==
    LET zeroed == zeroField(blob, off)
        hash == Sum256(zeroed)
    IN  [blob |-> zeroed, hash |-> hash]

\* calcMetaHash(mfgImageBlob, hashOffset), for an offset in range: the blob
\* afterwards and the digest returned
calcMetaHash(blob, off) ==
    LET oldContents == Slice(blob, off, off + META_HASH_SZ)
        zeroed == zeroField(blob, off)
        hash == Sum256(zeroed)
    IN  [blob |-> copyAt(zeroed, off, oldContents), hash |-> hash]

\* fillMetaHash(mfgImageBlob, hashOffset), for an offset in range
fillMetaHash(blob, off) ==
    LET r == calcMetaHash(blob, off)
    IN  copyAt(r.blob, off, r.hash)

\* an offset out of range: the slice expression at the top of calcMetaHash
\* panics when the field ends past the capacity of the blob, leaving the
\* blob as it is; with spare capacity it succeeds and the zeroing loop
\* panics at the first index past the length, after zeroing the bytes
\* before it.  The capacity is not modelled: both outcomes are possible.
calcPanicOutcomes(blob, off) ==
    {blob} \cup (IF off >= 0 THEN {zeroField(blob, off)} ELSE {})

----------------------------------------------------------------------------
(* Inputs                                                                  *)

\* length of a region with k flash areas: header, k TLVs, hash TLV, footer
RegionLenFor(k) ==
    4 + k * (2 + META_TLV_FLASH_AREA_SZ) + (2 + META_TLV_HASH_SZ) + META_FOOTER_SZ

\* boot loader areas: at offset 0 and elsewhere, one byte too small for a
\* region, exactly as large, and larger
BootOffsets == {0, 2, 100}

BootSizes == {RegionLenFor(k) + d : k \in 1..MaxAreas, d \in {-1, 0, 3}}

BootAreas ==
    {[Name |-> FLASH_AREA_NAME_BOOTLOADER, Id |-> 0, Device |-> 0,
      Offset |-> o, Size |-> s] : o \in BootOffsets, s \in BootSizes}

\* other areas, with ids at the end of the TLV's one-byte range and offsets
\* and sizes up to the largest integer TLC has (0x7fffffff)
OtherAreas ==
    {[Name |-> "FLASH_AREA_IMAGE_0", Id |-> 1, Device |-> 0,
      Offset |-> 32768, Size |-> 2147483647],
     [Name |-> "FLASH_AREA_IMAGE_SCRATCH", Id |-> 3, Device |-> 1,
      Offset |-> 253952, Size |-> 4096],
     [Name |-> "FLASH_AREA_NFFS", Id |-> 255, Device |-> 255,
      Offset |-> 2147483647, Size |-> 256]}

FlashMaps ==
    {fm \in {others \cup boot : others \in SUBSET OtherAreas,
                                boot \in {{}} \cup {{a} : a \in BootAreas}} :
        Cardinality(fm) <= MaxAreas}

\* a blob: codeLen bytes of boot loader code (none of them 0xff), then erased
\* flash, with one written byte at index dirty (none when dirty < 0)
Blob(len, codeLen, dirty) ==
    [i \in 1..len |->
        IF i - 1 < codeLen THEN ((i - 1) * 7 + 1) % 255
        ELSE IF i - 1 = dirty THEN 0 ELSE ERASED]

\* blobs around the end of the boot loader area of fm: longer than it, ending
\* with it, and shorter; clean, or dirty at the start, in the middle or at
\* the last byte of the region's place
BlobsFor(fm) ==
    LET end == IF HasBootArea(fm)
               THEN BootArea(fm).Offset + BootArea(fm).Size
               ELSE RegionLenFor(1)
        rlen == Len(buildRegion(fm).buf)
        start == IF end >= rlen THEN end - rlen ELSE 0
    IN  {Blob(end + d, c, dirty) :
            d \in {-40, -9, -1, 0, 4}, c \in {0, 3},
            dirty \in {-1, start, start + (end - start) \div 2, end - 1}}

\* blobs of the hash-only specification: erased, zero, or a ramp of values
HashBlobs ==
    {[i \in 1..len |-> IF k = 0 THEN ERASED
                       ELSE IF k = 1 THEN 0 ELSE (i * k) % 256] :
        len \in META_HASH_SZ..(META_HASH_SZ + MaxSlack), k \in {0, 1, 3, 5}}

----------------------------------------------------------------------------
(* The pipeline: insertMeta, then calcMetaHash / fillMetaHash              *)

Init ==
    /\ pc = "start"
    /\ lastOp = "none"
    /\ flashMap \in FlashMaps
    /\ section0Data \in BlobsFor(flashMap)
    /\ buf = << >>
    /\ hashSubOff = 0
    /\ hashOffset = 0
    /\ err = "nil"
    /\ orig = section0Data
    /\ insBlob = << >>
    /\ pre = << >>
    /\ digests = << >>

InsertMeta ==
    /\ pc = "start"
    /\ LET r == insertMeta(section0Data, flashMap)
       IN  /\ pc' = IF r.panic THEN "panicked"
                    ELSE IF r.err # "nil" THEN "failed" ELSE "inserted"
           /\ section0Data' = r.data
           /\ buf' = r.buf
           /\ hashSubOff' = r.hashSubOff
           /\ hashOffset' = r.hashOff
           /\ err' = r.err
           /\ insBlob' = r.data
    /\ lastOp' = "insertMeta"
    /\ orig' = section0Data
    /\ UNCHANGED << flashMap, pre, digests >>

CalcMetaHash ==
    /\ pc \in {"ready", "inserted", "patched"}
    /\ Len(digests) < MaxCalc
    /\ IF InRange(section0Data, hashOffset)
       THEN LET r == calcMetaHash(section0Data, hashOffset)
            IN  /\ section0Data' = r.blob
                /\ digests' = Append(digests, r.hash)
                /\ pc' = pc
       ELSE /\ section0Data' \in calcPanicOutcomes(section0Data, hashOffset)
            /\ digests' = digests
            /\ pc' = "panicked"
    /\ lastOp' = "calcMetaHash"
    /\ pre' = section0Data
    /\ UNCHANGED << flashMap, buf, hashSubOff, hashOffset, err, orig, insBlob >>

FillMetaHash ==
    /\ pc \in {"ready", "inserted"}
    /\ IF InRange(section0Data, hashOffset)
       THEN /\ section0Data' = fillMetaHash(section0Data, hashOffset)
            /\ pc' = "patched"
       ELSE /\ section0Data' \in calcPanicOutcomes(section0Data, hashOffset)
            /\ pc' = "panicked"
    /\ digests' = << >>
    /\ lastOp' = "fillMetaHash"
    /\ pre' = section0Data
    /\ UNCHANGED << flashMap, buf, hashSubOff, hashOffset, err, orig, insBlob >>

Next == InsertMeta \/ CalcMetaHash \/ FillMetaHash

Spec == Init /\ [][Next]_vars

----------------------------------------------------------------------------
(* The hash patcher alone, on any blob and any offset the caller passes    *)

HashInit ==
    /\ pc = "ready"
    /\ lastOp = "none"
    /\ flashMap = {}
    /\ section0Data \in HashBlobs
    /\ buf = << >>
    /\ hashSubOff = 0
    /\ hashOffset \in 0..(Len(section0Data) - META_HASH_SZ + 1)
    /\ err = "nil"
    /\ orig = section0Data
    /\ insBlob = section0Data
    /\ pre = << >>
    /\ digests = << >>

HashNext == CalcMetaHash \/ FillMetaHash

HashSpec == HashInit /\ [][HashNext]_vars

----------------------------------------------------------------------------
(* Properties                                                              *)

Boot == BootArea(flashMap)

BootEnd == Boot.Offset + Boot.Size

\* where the region belongs: flush with the end of the boot loader area
MetaOffset == BootEnd - Len(buf)

ErrTooSmall == "Boot loader flash area too small to accommodate meta region"

ErrOccupied == "Boot loader extends into meta region"

ErrMissing == "Required boot loader flash area missing"

\* the 32 bytes of blob at off .. off+31
Field(blob, off) == [k \in 1..META_HASH_SZ |-> blob[off + k]]

\* blob with the 32 bytes at off set to zero and every other byte as it is
WithZeroField(blob, off) ==
    [i \in 1..Len(blob) |->
        IF i - 1 >= off /\ i - 1 < off + META_HASH_SZ THEN 0 ELSE blob[i]]

\* a and b have the same length and differ at most at indexes lo .. hi-1
SameOutside(a, b, lo, hi) ==
    /\ Len(a) = Len(b)
    /\ \A i \in 0..(Len(a) - 1) : (i < lo \/ i >= hi) => At(a, i) = At(b, i)

\* every byte of the region's place [MetaOffset, BootEnd) is in blob and erased
WindowErased(blob) ==
    /\ BootEnd <= Len(blob)
    /\ \A i \in MetaOffset..(BootEnd - 1) : At(blob, i) = ERASED

\* C1: when the boot loader area exists and is at least as large as the
\* region, and some byte of the blob at an index in [MetaOffset, BootEnd) is
\* not 0xff, insertMeta returns the "Boot loader extends into meta region"
\* error and no hash offset.
C1_OccupiedWindowRejected ==
    ( /\ lastOp = "insertMeta"
      /\ HasBootArea(flashMap)
      /\ Boot.Size >= Len(buf)
      /\ \E i \in MetaOffset..(BootEnd - 1) :
            i < Len(orig) /\ At(orig, i) # ERASED )
    => (pc = "failed" /\ err = ErrOccupied /\ hashOffset = 0)

\* C2: whenever insertMeta returns an error, the blob is byte for byte what
\* it was before the call.
C2_ErrorLeavesBlobUntouched ==
    (lastOp = "insertMeta" /\ pc = "failed")
    => (err \in {ErrMissing, ErrTooSmall, ErrOccupied} /\ section0Data = orig)

\* insertMeta found a written byte in the region's place of a boot loader
\* area that is large enough, and returned the error
C2_Witness ==
    /\ lastOp = "insertMeta"
    /\ pc = "failed"
    /\ err = ErrOccupied
    /\ \E i \in 0..(Len(orig) - 1) : At(orig, i) # ERASED

\* C3: whenever insertMeta succeeds, the blob holds the whole region at
\* [MetaOffset, MetaOffset + Len(buf)) and every byte outside that range is
\* what it was before the call.
C3_RegionCopiedFlushWithEnd ==
    (lastOp = "insertMeta" /\ pc = "inserted")
    => /\ \A k \in 0..(Len(buf) - 1) :
            /\ MetaOffset + k < Len(section0Data)
            /\ At(section0Data, MetaOffset + k) = At(buf, k)
       /\ SameOutside(section0Data, orig, MetaOffset, MetaOffset + Len(buf))

\* C4: with a boot loader area in the map, insertMeta fails with the "too
\* small" error exactly when the region is longer than the area; an area one
\* byte shorter than the region fails with it, and an area exactly as long as
\* the region, its place all 0xff, succeeds with the region at the area's
\* offset and the hash offset at that offset plus hashSubOff.
C4_SizeBoundary ==
    (lastOp = "insertMeta" /\ HasBootArea(flashMap))
    => /\ (pc = "failed" /\ err = ErrTooSmall) <=> (Len(buf) > Boot.Size)
       /\ err = ErrTooSmall => pc = "failed"
       /\ Boot.Size = Len(buf) - 1 => (pc = "failed" /\ err = ErrTooSmall)
       /\ (Boot.Size = Len(buf) /\ WindowErased(orig))
            => /\ pc = "inserted"
               /\ err = "nil"
               /\ MetaOffset = Boot.Offset
               /\ Slice(section0Data, Boot.Offset, Boot.Offset + Len(buf)) = buf
               /\ hashOffset = Boot.Offset + hashSubOff

\* insertMeta ran on a boot loader area exactly as long as the region, away
\* from offset 0, its place erased
C4_Witness ==
    /\ lastOp = "insertMeta"
    /\ HasBootArea(flashMap)
    /\ Boot.Size = Len(buf)
    /\ Boot.Offset > 0
    /\ WindowErased(orig)

\* C5: the 16-bit little-endian size field of the footer of the region
\* insertMeta built is the length of the region, which is 4 + 14 per area
\* + 34 + 8, and the last 4 bytes are 0x3bb2a269 in little-endian order.
C5_FooterSizeAndMagic ==
    lastOp = "insertMeta"
    => LET n == Len(buf)
       IN  /\ n = 4 + 14 * Cardinality(flashMap) + 34 + 8
           /\ At(buf, n - 8) + 256 * At(buf, n - 7) = n
           /\ Slice(buf, n - 4, n) = << 105, 162, 178, 59 >>

\* insertMeta built the region of a map of several areas
C5_Witness ==
    /\ lastOp = "insertMeta"
    /\ Cardinality(flashMap) >= 3
    /\ Len(buf) > 0

\* C6: directly after the 4-byte header the region holds one flash-area TLV
\* (code 2, size 12) per area of SortedAreas, in that order, each with the
\* area's Id, Device, Offset and Size and the pad 0xffff, and directly after
\* them the hash TLV.
C6_FlashAreaTlvs ==
    lastOp = "insertMeta"
    => LET areas == SortedAreas(flashMap)
           n == Len(areas)
       IN  /\ n = Cardinality(flashMap)
           /\ Slice(buf, 0, 4) = << 1, 255, 255, 255 >>
           /\ \A i \in 1..n :
                LET base == 4 + 14 * (i - 1)
                IN  /\ At(buf, base) = 2
                    /\ At(buf, base + 1) = 12
                    /\ At(buf, base + 2) = areas[i].Id
                    /\ At(buf, base + 3) = areas[i].Device
                    /\ At(buf, base + 4) = 255
                    /\ At(buf, base + 5) = 255
                    /\ FromLittleEndian(Slice(buf, base + 6, base + 10))
                         = areas[i].Offset
                    /\ FromLittleEndian(Slice(buf, base + 10, base + 14))
                         = areas[i].Size
           /\ At(buf, 4 + 14 * n) = 1
           /\ At(buf, 4 + 14 * n + 1) = 32
           /\ Len(buf) = 4 + 14 * n + 34 + 8

\* insertMeta built the region of a map of three areas, with ids and offsets
\* up to the ends of their ranges
C6_Witness ==
    /\ lastOp = "insertMeta"
    /\ Cardinality(flashMap) >= 3
    /\ \E a \in flashMap : a.Id = 255 /\ a.Offset = 2147483647
    /\ Len(buf) > 4

\* C7: after fillMetaHash(blob, off) with off in range, the field holds the
\* digest of the whole blob with exactly the field zeroed (of the blob as it
\* was before the call, and of the patched blob alike), and calcMetaHash on
\* the patched blob returns the value the field holds.
C7_HashRoundTrip ==
    /\ (lastOp = "fillMetaHash" /\ pc = "patched")
        => /\ Field(section0Data, hashOffset)
                = Sum256(WithZeroField(pre, hashOffset))
           /\ Field(section0Data, hashOffset)
                = Sum256(WithZeroField(section0Data, hashOffset))
    /\ (lastOp = "calcMetaHash" /\ pc = "patched")
        => \A d \in 1..Len(digests) :
              digests[d] = Field(section0Data, hashOffset)

\* the field held something else than zero, was patched, and calcMetaHash
\* ran on the patched blob
C7_Witness ==
    /\ lastOp = "calcMetaHash"
    /\ pc = "patched"
    /\ Len(digests) >= 1
    /\ hashOffset > 0
    /\ Field(orig, hashOffset) # Zeros(META_HASH_SZ)

\* C8: calcMetaHash with an offset in range leaves every byte of the blob,
\* the field included, as it was, whatever the field held; calls in a row
\* return the same digest.
C8_CalcNonDestructive ==
    (lastOp = "calcMetaHash" /\ pc # "panicked")
    => /\ section0Data = pre
       /\ \A i, j \in 1..Len(digests) : digests[i] = digests[j]

\* calcMetaHash ran twice in a row on a blob whose field is not zero
C8_Witness ==
    /\ lastOp = "calcMetaHash"
    /\ pc = "ready"
    /\ Len(digests) >= 2
    /\ Field(pre, hashOffset) # Zeros(META_HASH_SZ)

\* C9: right after a successful insertMeta the 32 bytes at the returned
\* offset are all zero, and after fillMetaHash with that offset the blob
\* differs from the blob insertMeta left at most in those 32 bytes.
C9_OnlyHashFieldPatched ==
    /\ (lastOp = "insertMeta" /\ pc = "inserted")
        => /\ InRange(section0Data, hashOffset)
           /\ Field(section0Data, hashOffset) = Zeros(META_HASH_SZ)
    /\ lastOp = "fillMetaHash"
        => SameOutside(section0Data, insBlob,
                       hashOffset, hashOffset + META_HASH_SZ)

\* C10: the offset a successful insertMeta returns is MetaOffset +
\* hashSubOff = BootEnd - 8 - 32, lies with its 32 bytes inside the blob,
\* follows the hash TLV header (1, 32), and the hash calls that follow with
\* it never index outside the blob.
C10_HashOffsetValid ==
    /\ (lastOp = "insertMeta" /\ pc = "inserted")
        => /\ hashSubOff = Len(buf) - META_FOOTER_SZ - META_HASH_SZ
           /\ hashOffset = MetaOffset + hashSubOff
           /\ hashOffset = BootEnd - 8 - 32
           /\ 0 <= hashOffset
           /\ hashOffset + 32 <= Len(section0Data)
           /\ At(section0Data, hashOffset - 2) = 1
           /\ At(section0Data, hashOffset - 1) = 32
    /\ lastOp \in {"calcMetaHash", "fillMetaHash"} => pc # "panicked"

====
